---- MODULE Spec2Model ----
(***************************************************************************)
(* Model of the vocabulary cycling engine of app.py (class JLPTVocabApp):  *)
(* the deck (words, current_index), the cycle state (stage, paused,        *)
(* pending_jobs), the stored configuration, the three display labels and   *)
(* the Tk timer table that `after` / `after_cancel` operate on.            *)
(*                                                                         *)
(* Tk runs every handler to completion on the single event-loop thread,    *)
(* so each handler is one atomic action.  Texts are strings, the deck is a *)
(* sequence of WordEntry records, current_index is 0-based as in the code. *)
(***************************************************************************)
EXTENDS Integers, Sequences, FiniteSets, TLC

VARIABLES words, current_index, paused, pending_jobs, stage, config_data,
          display, topmost, timers, config_file, closed, lastOp, prev, visited,
          last_loaded

vars == <<words, current_index, paused, pending_jobs, stage, config_data,
          display, topmost, timers, config_file, closed, lastOp, prev, visited,
          last_loaded>>

(* ------------------------------ bounds -------------------------------- *)
MaxDeck    == 3      \* longest CSV file (rows) read by the model
MaxTimer   == 1      \* largest number of seconds typed or stored in a file
MaxPending == 3      \* cap on the length of pending_jobs

(* --------------------------- program constants ------------------------ *)
DEFAULT_CONFIG ==
    [showMeaningTimer |-> 3, nextWordTimer |-> 5, alwaysOnTop |-> TRUE]

MsPerSecond == 1000

EMPTY_MESSAGE  == "no word list"
LOADED_MESSAGE == "loaded, press play"

(* ------------------------------ WordEntry ----------------------------- *)
\* Two sample entries: one with reading and meaning, one whose reading cell
\* is empty.  A deck may hold the same entry more than once.
WordEntry(word, reading, meaning) ==
    [word |-> word, reading |-> reading, meaning |-> meaning]

SampleEntries == {WordEntry("w1", "r1", "m1"), WordEntry("w2", "", "m2")}

Range(s) == {s[i] : i \in 1..Len(s)}

SeqsUpTo(S, n) == UNION {[1..k -> S] : k \in 0..n}

\* all orders random.shuffle can leave a list in
IsPermutation(s, t) ==
    /\ Len(s) = Len(t)
    /\ \A x \in Range(s) \cup Range(t) :
          Cardinality({i \in 1..Len(s) : s[i] = x})
        = Cardinality({i \in 1..Len(t) : t[i] = x})

Shuffles(s) == {t \in [1..Len(s) -> Range(s)] : IsPermutation(s, t)}

(* ----------------------- load_words_from_csv -------------------------- *)
\* A CSV cell as read from the file; " " stands for a cell of white space.
Strip(text) == IF text = " " THEN "" ELSE text

BlankRow == [word |-> " ", reading |-> "r0", meaning |-> "m0"]

CsvRows == SampleEntries \cup {BlankRow}

\* A source is a missing file, a file without the required header, or a
\* file with some rows.
CsvSources ==
    {[kind |-> "missing", rows |-> <<>>], [kind |-> "badheader", rows |-> <<>>]}
    \cup {[kind |-> "rows", rows |-> r] : r \in SeqsUpTo(CsvRows, MaxDeck)}

RECURSIVE ParseRows(_)
ParseRows(rows) ==
    IF rows = <<>> THEN <<>>
    ELSE LET row   == Head(rows)
             entry == [word    |-> Strip(row.word),
                       reading |-> Strip(row.reading),
                       meaning |-> Strip(row.meaning)]
         IN  IF entry.word = "" THEN ParseRows(Tail(rows))
             ELSE <<entry>> \o ParseRows(Tail(rows))

\* result: raised (an exception) or the list of entries
load_words_from_csv(src) ==
    IF src.kind # "rows" THEN [raised |-> TRUE, entries |-> <<>>]
    ELSE [raised |-> FALSE, entries |-> ParseRows(src.rows)]

(* ----------------------------- load_config ---------------------------- *)
\* A value of a JSON field: absent, an integer, or something int() rejects.
RawInts == (0 - 1)..MaxTimer

\* int() accepts a negative number in the file as it accepts any other
FileInts == {0 - 1, MaxTimer}

RawTimers ==
    {[kind |-> "missing", val |-> 0], [kind |-> "bad", val |-> 0]}
    \cup {[kind |-> "int", val |-> n] : n \in FileInts}

RawFlags ==
    {[kind |-> "missing", val |-> FALSE]}
    \cup {[kind |-> "bool", val |-> b] : b \in BOOLEAN}

ConfigFiles ==
    {[kind |-> "absent"], [kind |-> "garbage"]}
    \cup {[kind |-> "json", showMeaningTimer |-> a, nextWordTimer |-> b,
           alwaysOnTop |-> c] : a \in RawTimers, b \in RawTimers, c \in RawFlags}

StoredFile(config) ==
    [kind |-> "json",
     showMeaningTimer |-> [kind |-> "int", val |-> config.showMeaningTimer],
     nextWordTimer    |-> [kind |-> "int", val |-> config.nextWordTimer],
     alwaysOnTop      |-> [kind |-> "bool", val |-> config.alwaysOnTop]]

load_config(file) ==
    IF file.kind # "json" THEN DEFAULT_CONFIG
    ELSE IF file.showMeaningTimer.kind = "bad" \/ file.nextWordTimer.kind = "bad"
         THEN DEFAULT_CONFIG
    ELSE [showMeaningTimer |->
              IF file.showMeaningTimer.kind = "missing"
              THEN DEFAULT_CONFIG.showMeaningTimer
              ELSE file.showMeaningTimer.val,
          nextWordTimer |->
              IF file.nextWordTimer.kind = "missing"
              THEN DEFAULT_CONFIG.nextWordTimer
              ELSE file.nextWordTimer.val,
          alwaysOnTop |->
              IF file.alwaysOnTop.kind = "missing"
              THEN DEFAULT_CONFIG.alwaysOnTop
              ELSE file.alwaysOnTop.val]

save_config(config) == StoredFile(config)

(* --------------------- SettingsWindow._validate_timer ----------------- *)
\* Text of an entry field: blank, not an integer, or an integer.
FieldTexts ==
    {[kind |-> "blank", val |-> 0], [kind |-> "bad", val |-> 0]}
    \cup {[kind |-> "int", val |-> n] : n \in RawInts}

_validate_timer(value) ==
    IF value.kind = "blank" THEN [raised |-> TRUE, number |-> 0]
    ELSE IF value.kind = "bad" THEN [raised |-> TRUE, number |-> 0]
    ELSE IF value.val < 0 THEN [raised |-> TRUE, number |-> 0]
    ELSE [raised |-> FALSE, number |-> value.val]

(* ------------------------------ Timer port ---------------------------- *)
\* Tk's timer table: the callbacks scheduled with `after` that have neither
\* fired nor been cancelled.  A job is [id, cb, delay, due]: delay is the
\* delay in ms it was scheduled with, due tells whether that delay has
\* elapsed, so that the event loop may run it; a job scheduled with delay 0
\* is due at once.  Tk never hands out an identifier
\* twice; the model picks the least identifier that neither the table nor
\* pending_jobs still mentions, which no comparison can tell from a new one.
JobIds(e) == Range(e.pending_jobs) \cup {t.id : t \in e.timers}

NewJobId(e) == CHOOSE n \in 1..(Cardinality(JobIds(e)) + 1) : n \notin JobIds(e)

\* self.after(delay_ms, callback); pending_jobs.append(job)
after(e, delay_ms, callback) ==
    LET job == NewJobId(e)
    IN  [e EXCEPT !.timers = @ \cup {[id |-> job, cb |-> callback, delay |-> delay_ms,
                                      due |-> (delay_ms = 0)]},
                  !.pending_jobs = Append(@, job)]

\* self.after_cancel(job): a job that fired or was cancelled is ignored
after_cancel(table, job) == {t \in table : t.id # job}

Max(a, b) == IF a >= b THEN a ELSE b

(* --------------------------- engine handlers -------------------------- *)
\* The handlers are functions of the engine's fields, gathered in a record e.
CurrentEntry(e) == e.words[e.current_index + 1]

\* for job in self.pending_jobs: self.after_cancel(job)
RECURSIVE CancelAll(_, _)
CancelAll(table, jobs) ==
    IF jobs = <<>> THEN table
    ELSE CancelAll(after_cancel(table, Head(jobs)), Tail(jobs))

\* variant: the callbacks are cancelled but the record is not cleared
cancel_pending_jobs_no_clear(e) ==
    [e EXCEPT !.timers = CancelAll(@, e.pending_jobs)]

cancel_pending_jobs(e) ==
    [e EXCEPT !.timers = CancelAll(@, e.pending_jobs),
              !.pending_jobs = <<>>]

\* variant: the pending callbacks are not cancelled first
show_current_word_no_cancel(e0) ==
    LET e == e0
    IN  IF e.words = <<>>
        THEN [e EXCEPT !.display = <<EMPTY_MESSAGE, "", "">>]
        ELSE LET shown == [e EXCEPT !.display = <<CurrentEntry(e).word, "", "">>,
                                    !.stage = "word"]
             IN  IF ~shown.paused
                 THEN after(shown,
                            Max(0, shown.config_data.showMeaningTimer) * MsPerSecond,
                            "reveal_current_word")
                 ELSE shown

\* variant: a timer of 0 is taken as unset and replaced by the default
show_current_word_zero_unset(e0) ==
    LET e == cancel_pending_jobs(e0)
    IN  IF e.words = <<>>
        THEN [e EXCEPT !.display = <<EMPTY_MESSAGE, "", "">>]
        ELSE LET shown == [e EXCEPT !.display = <<CurrentEntry(e).word, "", "">>,
                                    !.stage = "word"]
                 seconds == IF shown.config_data.showMeaningTimer = 0
                            THEN DEFAULT_CONFIG.showMeaningTimer
                            ELSE shown.config_data.showMeaningTimer
             IN  IF ~shown.paused
                 THEN after(shown, Max(0, seconds) * MsPerSecond,
                            "reveal_current_word")
                 ELSE shown

\* variant: with an empty deck the reveal is scheduled all the same
show_current_word_empty_schedules(e0) ==
    LET e == cancel_pending_jobs(e0)
    IN  IF e.words = <<>>
        THEN LET shown == [e EXCEPT !.display = <<EMPTY_MESSAGE, "", "">>]
             IN  IF ~shown.paused
                 THEN after(shown,
                            Max(0, shown.config_data.showMeaningTimer) * MsPerSecond,
                            "reveal_current_word")
                 ELSE shown
        ELSE LET shown == [e EXCEPT !.display = <<CurrentEntry(e).word, "", "">>,
                                    !.stage = "word"]
             IN  IF ~shown.paused
                 THEN after(shown,
                            Max(0, shown.config_data.showMeaningTimer) * MsPerSecond,
                            "reveal_current_word")
                 ELSE shown

\* self.words[self.current_index] raises IndexError past the end of the
\* list, and the handler stops there
IndexError(e) == e.current_index >= Len(e.words)

show_current_word(e0) ==
    LET e == cancel_pending_jobs(e0)
    IN  IF e.words = <<>>
        THEN [e EXCEPT !.display = <<EMPTY_MESSAGE, "", "">>]
        ELSE IF IndexError(e) THEN e
        ELSE LET shown == [e EXCEPT !.display = <<CurrentEntry(e).word, "", "">>,
                                    !.stage = "word"]
             IN  IF ~shown.paused
                 THEN after(shown,
                            Max(0, shown.config_data.showMeaningTimer) * MsPerSecond,
                            "reveal_current_word")
                 ELSE shown

\* variant: the meaning is written to both labels
reveal_current_word_both_meaning(e) ==
    IF e.words = <<>> THEN e
    ELSE LET shown == [e EXCEPT !.display = <<@[1], CurrentEntry(e).meaning,
                                              CurrentEntry(e).meaning>>,
                                !.stage = "meaning"]
         IN  IF ~shown.paused
             THEN after(shown,
                        Max(0, shown.config_data.nextWordTimer) * MsPerSecond,
                        "advance_to_next_word")
             ELSE shown

\* variant: the meaning is shown but the advance callback is not scheduled
reveal_current_word_no_schedule(e) ==
    IF e.words = <<>> THEN e
    ELSE IF IndexError(e) THEN e
    ELSE [e EXCEPT !.display = <<@[1], CurrentEntry(e).reading,
                                 CurrentEntry(e).meaning>>,
                   !.stage = "meaning"]

reveal_current_word(e) ==
    IF e.words = <<>> THEN e
    ELSE IF IndexError(e) THEN e
    ELSE LET shown == [e EXCEPT !.display = <<@[1], CurrentEntry(e).reading,
                                              CurrentEntry(e).meaning>>,
                                !.stage = "meaning"]
         IN  IF ~shown.paused
             THEN after(shown,
                        Max(0, shown.config_data.nextWordTimer) * MsPerSecond,
                        "advance_to_next_word")
             ELSE shown

\* variant: the deck is reshuffled on every advance
advance_to_next_word_always_shuffle(e, shuffled) ==
    IF e.words = <<>> THEN e
    ELSE LET next == (e.current_index + 1) % Len(e.words)
             moved == [e EXCEPT !.current_index = next, !.words = shuffled]
         IN  show_current_word(moved)

\* variant: the index wraps one entry early
advance_to_next_word_early_wrap(e, shuffled) ==
    IF e.words = <<>> THEN e
    ELSE LET next == IF e.current_index + 2 >= Len(e.words) THEN 0
                     ELSE e.current_index + 1
             moved == [e EXCEPT !.current_index = next,
                                !.words = IF next = 0 THEN shuffled ELSE @]
         IN  show_current_word(moved)

\* variant: the index is not stepped, the same entry is shown again
advance_to_next_word_same_entry(e, shuffled) ==
    IF e.words = <<>> THEN e
    ELSE show_current_word(e)

\* shuffled: the order random.shuffle leaves the deck in when the index wraps
advance_to_next_word(e, shuffled) ==
    IF e.words = <<>> THEN e
    ELSE LET next == (e.current_index + 1) % Len(e.words)
             moved == [e EXCEPT !.current_index = next,
                                !.words = IF next = 0 THEN shuffled ELSE @]
         IN  show_current_word(moved)

\* variant: resuming clears the flag without restarting the cycle
toggle_pause_no_restart(e) ==
    IF e.paused
    THEN [e EXCEPT !.paused = FALSE]
    ELSE cancel_pending_jobs([e EXCEPT !.paused = TRUE])

\* variant: pausing leaves the scheduled callback in place
toggle_pause_no_cancel(e) ==
    IF e.paused
    THEN show_current_word([e EXCEPT !.paused = FALSE])
    ELSE [e EXCEPT !.paused = TRUE]

\* variant: pausing redraws the current word
toggle_pause_redraw(e) ==
    IF e.paused
    THEN show_current_word([e EXCEPT !.paused = FALSE])
    ELSE show_current_word([e EXCEPT !.paused = TRUE])

toggle_pause(e) ==
    IF e.paused
    THEN show_current_word([e EXCEPT !.paused = FALSE])
    ELSE cancel_pending_jobs([e EXCEPT !.paused = TRUE])

apply_topmost_setting(e) == [e EXCEPT !.topmost = e.config_data.alwaysOnTop]

\* variant: the configuration is stored without restarting the cycle
update_config_no_restart(e, config) ==
    apply_topmost_setting([e EXCEPT !.config_data = config])

update_config(e, config) ==
    LET stored == apply_topmost_setting([e EXCEPT !.config_data = config])
    IN  IF ~stored.paused THEN show_current_word(stored) ELSE stored

\* variant: the new entries are added to the deck instead of replacing it
load_words_from_path_extends(e, src, shuffled) ==
    LET loaded == load_words_from_csv(src)
    IN  IF loaded.raised THEN e
        ELSE IF loaded.entries = <<>> THEN e
        ELSE LET replaced == [e EXCEPT !.words = @ \o shuffled, !.current_index = 0]
             IN  IF replaced.paused
                 THEN [replaced EXCEPT !.display = <<LOADED_MESSAGE, "", "">>]
                 ELSE show_current_word(replaced)

\* variant: an empty list is not rejected
load_words_from_path_accept_empty(e, src, shuffled) ==
    LET loaded == load_words_from_csv(src)
    IN  IF loaded.raised THEN e
        ELSE LET replaced == [e EXCEPT !.words = shuffled, !.current_index = 0]
             IN  IF replaced.paused
                 THEN [replaced EXCEPT !.display = <<LOADED_MESSAGE, "", "">>]
                 ELSE show_current_word(replaced)

\* variant: the index is kept when the deck is replaced
load_words_from_path_keep_index(e, src, shuffled) ==
    LET loaded == load_words_from_csv(src)
    IN  IF loaded.raised THEN e
        ELSE IF loaded.entries = <<>> THEN e
        ELSE LET replaced == [e EXCEPT !.words = shuffled]
             IN  IF replaced.paused
                 THEN [replaced EXCEPT !.display = <<LOADED_MESSAGE, "", "">>]
                 ELSE show_current_word(replaced)

\* variant: the new deck's first word is shown without restarting the cycle
load_words_from_path_no_restart(e, src, shuffled) ==
    LET loaded == load_words_from_csv(src)
    IN  IF loaded.raised THEN e
        ELSE IF loaded.entries = <<>> THEN e
        ELSE LET replaced == [e EXCEPT !.words = shuffled, !.current_index = 0]
             IN  IF replaced.paused
                 THEN [replaced EXCEPT !.display = <<LOADED_MESSAGE, "", "">>]
                 ELSE [replaced EXCEPT !.display = <<shuffled[1].word, "", "">>,
                                       !.stage = "word"]

\* src: the CSV file picked; shuffled: the order random.shuffle leaves
load_words_from_path(e, src, shuffled) ==
    LET loaded == load_words_from_csv(src)
    IN  IF loaded.raised THEN e
        ELSE IF loaded.entries = <<>> THEN e
        ELSE LET replaced == [e EXCEPT !.words = shuffled, !.current_index = 0]
             IN  IF replaced.paused
                 THEN [replaced EXCEPT !.display = <<LOADED_MESSAGE, "", "">>]
                 ELSE show_current_word(replaced)

(* ------------------------- state and transitions ---------------------- *)
Engine ==
    [words |-> words, current_index |-> current_index, paused |-> paused,
     pending_jobs |-> pending_jobs, stage |-> stage, config_data |-> config_data,
     display |-> display, topmost |-> topmost, timers |-> timers]

\* the engine's fields after a handler returned
Becomes(result) ==
  \E e \in {result} :
    /\ words' = e.words
    /\ current_index' = e.current_index
    /\ paused' = e.paused
    /\ pending_jobs' = e.pending_jobs
    /\ stage' = e.stage
    /\ config_data' = e.config_data
    /\ display' = e.display
    /\ topmost' = e.topmost
    /\ timers' = e.timers

\* History of the run: lastOp names the handler that ran last, prev the
\* position and stage it started from, visited the entries that became the
\* current one since the deck was loaded or since as many advances as the
\* deck is long, last_loaded how often each entry occurred in the list that
\* load_words_from_csv returned last.
FirstOf(deck) == IF deck = <<>> THEN <<>> ELSE <<deck[1]>>

Occurrences(entries) ==
    [x \in Range(entries) |-> Cardinality({i \in 1..Len(entries) : entries[i] = x})]

RecordLoad(op, entries) ==
    /\ lastOp' = op
    /\ last_loaded' = entries
    /\ prev' = [current_index |-> current_index, stage |-> stage]
    /\ visited' =
          IF op = "load_ok" THEN FirstOf(words')
          ELSE IF op = "advance" /\ words' # <<>>
               THEN IF Len(visited) >= Len(words)
                    THEN <<words'[current_index' + 1]>>
                    ELSE Append(visited, words'[current_index' + 1])
          ELSE visited

Record(op) == RecordLoad(op, last_loaded)

\* The files the user can pick, each with the orders random.shuffle can
\* leave its entries in.  Files are told apart by what the parser and the
\* shuffle make of them: inputs with the same result drive the handler
\* through the same path to the same state, and one of them is kept.
AllImports ==
    UNION {{[src |-> src, shuffled |-> t] :
                t \in Shuffles(load_words_from_csv(src).entries)} :
           src \in CsvSources}

ImportResult(import) ==
    [kind |-> import.src.kind, empty |-> load_words_from_csv(import.src).entries = <<>>,
     shuffled |-> import.shuffled]

Imports ==
    {CHOOSE x \in AllImports : ImportResult(x) = r :
        r \in {ImportResult(y) : y \in AllImports}}

\* the texts the user can leave in the settings dialog, told apart by what
\* _validate_timer makes of the two timer fields
AllSettings ==
    {[show_text |-> a, next_text |-> b, always_on_top |-> c] :
        a \in FieldTexts, b \in FieldTexts, c \in BOOLEAN}

SettingsResult(input) ==
    [show |-> _validate_timer(input.show_text),
     next |-> _validate_timer(input.next_text),
     always_on_top |-> input.always_on_top]

Settings ==
    {CHOOSE x \in AllSettings : SettingsResult(x) = r :
        r \in {SettingsResult(y) : y \in AllSettings}}

\* JLPTVocabApp.__init__: configuration, default word list, first word
Startup(file, src, shuffled) ==
    LET config == load_config(file)
        e0 == [words |-> shuffled, current_index |-> 0, paused |-> FALSE,
               pending_jobs |-> <<>>, stage |-> "word", config_data |-> config,
               display |-> <<IF shuffled = <<>> THEN EMPTY_MESSAGE ELSE "", "", "">>,
               topmost |-> config.alwaysOnTop, timers |-> {}]
    IN  \E e \in {show_current_word(e0)} :
        /\ words = e.words
        /\ current_index = e.current_index
        /\ paused = e.paused
        /\ pending_jobs = e.pending_jobs
        /\ stage = e.stage
        /\ config_data = e.config_data
        /\ display = e.display
        /\ topmost = e.topmost
        /\ timers = e.timers
        /\ config_file = IF file.kind = "absent" THEN save_config(config)
                         ELSE [kind |-> "found"]
        /\ closed = FALSE
        /\ lastOp = "start"
        /\ prev = [current_index |-> 0, stage |-> "word"]
        /\ visited = FirstOf(shuffled)
        /\ last_loaded = Occurrences(load_words_from_csv(src).entries)

Init ==
    \E file \in ConfigFiles, import \in Imports :
        Startup(file, import.src, import.shuffled)

\* the event loop runs a due `after` callback: reveal_current_word
FireReveal ==
    /\ ~closed
    /\ Len(pending_jobs) < MaxPending
    /\ \E t \in timers :
          /\ t.due
          /\ t.cb = "reveal_current_word"
          /\ Becomes(reveal_current_word([Engine EXCEPT !.timers = @ \ {t}]))
    /\ Record("reveal")
    /\ UNCHANGED <<config_file, closed>>

\* the event loop runs a due `after` callback: advance_to_next_word
FireAdvance ==
    /\ ~closed
    /\ \E t \in timers :
          /\ t.due
          /\ t.cb = "advance_to_next_word"
          /\ \E shuffled \in Shuffles(words) :
                Becomes(advance_to_next_word([Engine EXCEPT !.timers = @ \ {t}],
                                             shuffled))
    /\ Record("advance")
    /\ UNCHANGED <<config_file, closed>>

\* time passes until the delay of the scheduled callbacks has elapsed
Elapse ==
    /\ ~closed
    /\ timers # {}
    /\ \A t \in timers : ~t.due
    /\ timers' = {[t EXCEPT !.due = TRUE] : t \in timers}
    /\ Record("elapse")
    /\ UNCHANGED <<words, current_index, paused, pending_jobs, stage,
                   config_data, display, topmost, config_file, closed>>

\* the pause button
TogglePause ==
    /\ ~closed
    /\ Becomes(toggle_pause(Engine))
    /\ Record(IF paused THEN "resume" ELSE "pause")
    /\ UNCHANGED <<config_file, closed>>

\* variant: the first timer is stored before the second one is validated
SaveSettings_stores_first(show_text, next_text, always_on_top) ==
    LET show_timer == _validate_timer(show_text)
        next_timer == _validate_timer(next_text)
        config == [showMeaningTimer |-> show_timer.number,
                   nextWordTimer |-> next_timer.number,
                   alwaysOnTop |-> always_on_top]
    IN  /\ ~closed
        /\ IF show_timer.raised
           THEN /\ Record("config_rejected")
                /\ UNCHANGED <<words, current_index, paused, pending_jobs, stage,
                               config_data, display, topmost, timers, config_file>>
           ELSE IF next_timer.raised
           THEN /\ Record("config_rejected")
                /\ config_data' = [config_data EXCEPT
                                      !.showMeaningTimer = show_timer.number]
                /\ UNCHANGED <<words, current_index, paused, pending_jobs, stage,
                               display, topmost, timers, config_file>>
           ELSE /\ Becomes(update_config(Engine, config))
                /\ config_file' = save_config(config)
                /\ Record("config_ok")
        /\ UNCHANGED closed

\* SettingsWindow.save_settings with the texts of the two entry fields
SaveSettings(show_text, next_text, always_on_top) ==
    LET show_timer == _validate_timer(show_text)
        next_timer == _validate_timer(next_text)
        config == [showMeaningTimer |-> show_timer.number,
                   nextWordTimer |-> next_timer.number,
                   alwaysOnTop |-> always_on_top]
    IN  /\ ~closed
        /\ IF show_timer.raised \/ next_timer.raised
           THEN /\ Record("config_rejected")
                /\ UNCHANGED <<words, current_index, paused, pending_jobs, stage,
                               config_data, display, topmost, timers, config_file>>
           ELSE /\ Becomes(update_config(Engine, config))
                /\ config_file' = save_config(config)
                /\ Record("config_ok")
        /\ UNCHANGED closed

\* SettingsWindow.import_words with the file the user picked
ImportWords(src, shuffled) ==
    LET loaded == load_words_from_csv(src)
    IN  /\ ~closed
        /\ Becomes(load_words_from_path(Engine, src, shuffled))
        /\ IF loaded.raised THEN Record("load_error")
           ELSE IF loaded.entries = <<>> THEN Record("load_empty")
           ELSE RecordLoad("load_ok", Occurrences(loaded.entries))
        /\ UNCHANGED <<config_file, closed>>

\* JLPTVocabApp.on_close
OnClose ==
    /\ ~closed
    /\ Becomes(cancel_pending_jobs(Engine))
    /\ closed' = TRUE
    /\ Record("close")
    /\ UNCHANGED config_file

Next ==
    \/ FireReveal
    \/ FireAdvance
    \/ Elapse
    \/ TogglePause
    \/ \E input \in Settings :
          SaveSettings(input.show_text, input.next_text, input.always_on_top)
    \/ \E import \in Imports : ImportWords(import.src, import.shuffled)
    \/ OnClose

Spec == Init /\ [][Next]_vars

\* The event loop keeps serving its timer table: time passes, and a callback
\* whose delay has elapsed is run.
TimerOps == {"reveal", "advance", "elapse"}

TimerStep == lastOp' \in TimerOps /\ (FireReveal \/ FireAdvance \/ Elapse)

SpecFair == Spec /\ WF_vars(TimerStep)

TypeOK ==
    /\ current_index \in 0..MaxDeck
    /\ stage \in {"word", "meaning"}
    /\ paused \in BOOLEAN
    /\ closed \in BOOLEAN
    /\ Len(pending_jobs) <= MaxPending
    /\ Len(words) <= MaxDeck

(* ------------------------------ properties ---------------------------- *)
UserOps == {"pause", "resume", "config_ok", "config_rejected",
            "load_ok", "load_empty", "load_error", "close"}

Running == ~paused /\ ~closed /\ words # <<>>

Current == words[current_index + 1]

WordOnly(entry) == <<entry.word, "", "">>

Revealed(entry) == <<entry.word, entry.reading, entry.meaning>>

\* C1: at most one scheduled callback is live (scheduled and neither fired
\* nor cancelled) in every reachable state.
C1_AtMostOneLive == Cardinality(timers) <= 1

\* reveal has fired and scheduled advance: two handles recorded, one live
C1_Witness ==
    /\ lastOp = "reveal"
    /\ Len(pending_jobs) = 2
    /\ Cardinality(timers) = 1

\* C2: a resume that directly follows a pause ends with paused = FALSE and
\* stage = "word", whatever the stage was and whether the deck is empty.
C2_PauseResume ==
    [][(lastOp = "pause" /\ lastOp' = "resume")
         => (~paused' /\ stage' = "word")]_vars

\* resumed after a pause in the meaning stage
C2_Witness ==
    /\ lastOp = "resume"
    /\ prev.stage = "meaning"
    /\ words # <<>>
    /\ ~paused
    /\ stage = "word"

\* C3: loading a file without entries changes neither the deck and its
\* order, nor index, stage, paused flag or the pending timer.
C3_EmptyLoadRejected ==
    [][lastOp' = "load_empty"
         => UNCHANGED <<words, current_index, stage, paused, pending_jobs,
                        timers, display, config_data>>]_vars

\* an empty file was rejected while a deck was loaded and a callback pending
C3_Witness ==
    /\ lastOp = "load_empty"
    /\ Len(words) >= 2
    /\ current_index > 0
    /\ timers # {}

\* C4: the entries that became current since the pass began are the first
\* current_index + 1 deck positions in deck order: each position once, the
\* order unchanged in mid-pass, index 0 again after Len(words) advances only.
C4_RoundRobin ==
    words # <<>> => visited = SubSeq(words, 1, current_index + 1)

\* the last entry of a three-entry pass is the current one
C4_Witness ==
    /\ lastOp = "advance"
    /\ Len(words) = 3
    /\ current_index = 2
    /\ Len(visited) = 3

\* C5: unless a deck is loaded, a step leaves the deck a permutation of what
\* it was, and changes its order only in an advance that wraps index to 0.
C5_ShuffleOnlyPermutes ==
    [][lastOp' # "load_ok"
         => /\ IsPermutation(words, words')
            /\ (words' # words => (lastOp' = "advance" /\ current_index' = 0))]_vars

\* index wrapped to 0 on a deck of three entries
C5_Witness ==
    /\ lastOp = "advance"
    /\ Len(words) = 3
    /\ current_index = 0
    /\ prev.current_index = 2

\* a valid configuration with showMeaningTimer = 0 was just stored while the
\* engine was running on a non-empty deck
ZeroDelayStored ==
    /\ lastOp = "config_ok"
    /\ Running
    /\ config_data.showMeaningTimer = 0

\* C6: after such a configuration change the next engine event is the reveal
\* of the current entry: no waiting step comes before it, and unless the
\* user acts first the meaning stage is reached.
C6_ZeroDelayReveals ==
    /\ [][(ZeroDelayStored /\ lastOp' \notin UserOps)
            => /\ lastOp' = "reveal"
               /\ stage' = "meaning"
               /\ display' = Revealed(Current)
               /\ UNCHANGED <<words, current_index, paused>>]_vars
    /\ (ZeroDelayStored
          ~> \/ (lastOp = "reveal" /\ stage = "meaning")
             \/ (lastOp \in UserOps /\ ~ZeroDelayStored))

\* the reveal ran straight after the configuration change
C6_Witness ==
    /\ lastOp = "reveal"
    /\ stage = "meaning"
    /\ config_data.showMeaningTimer = 0
    /\ Running
    /\ display = Revealed(Current)
    /\ \E t \in timers : t.cb = "advance_to_next_word"

\* C7: in a running engine the callbacks alternate: with only the word
\* shown, the callback that fires shows word, reading and meaning of the same
\* entry; with the meaning shown, it moves to the next entry (the same one
\* for a single-entry deck) and shows only its word.
C7_DisplayOrder ==
    [][(Running /\ lastOp' \in {"reveal", "advance"})
         => /\ (stage = "word"
                  => /\ lastOp' = "reveal"
                     /\ display = WordOnly(Current)
                     /\ display' = Revealed(Current)
                     /\ stage' = "meaning"
                     /\ UNCHANGED <<words, current_index>>)
            /\ (stage = "meaning"
                  => /\ lastOp' = "advance"
                     /\ display = Revealed(Current)
                     /\ current_index' = (current_index + 1) % Len(words)
                     /\ display' = WordOnly(words'[current_index' + 1])
                     /\ stage' = "word")]_vars

\* a single-entry deck shows its word again after the advance
C7_Witness ==
    /\ lastOp = "advance"
    /\ prev.stage = "meaning"
    /\ Len(words) = 1
    /\ Running
    /\ display = WordOnly(words[1])

\* C8: with a non-empty deck, current_index is a valid position of it.
C8_IndexInRange ==
    words # <<>> => current_index \in 0..(Len(words) - 1)

\* a deck was replaced by one shorter than the old index
C8_Witness ==
    /\ lastOp = "load_ok"
    /\ prev.current_index > Len(words)
    /\ current_index = 0

\* C9: while paused, no handle is recorded as pending and no callback is live.
C9_PausedHasNoTimer ==
    paused => (pending_jobs = <<>> /\ timers = {})

\* the configuration was replaced while paused
C9_Witness ==
    /\ paused
    /\ lastOp = "config_ok"
    /\ words # <<>>
    /\ prev.stage = "meaning"

\* C10: pausing sets the flag, cancels the pending callback and leaves stage,
\* index, deck and labels as they are; while paused only a user action takes
\* a step.
C10_PauseFreezes ==
    /\ [][lastOp' = "pause"
            => /\ paused'
               /\ timers' = {}
               /\ pending_jobs' = <<>>
               /\ UNCHANGED <<stage, current_index, words, display, config_data>>]_vars
    /\ [][paused => lastOp' \in UserOps]_vars

\* paused while the meaning of an entry was shown
C10_Witness ==
    /\ lastOp = "pause"
    /\ paused
    /\ stage = "meaning"
    /\ words # <<>>
    /\ display = Revealed(Current)
    /\ display[3] # ""

\* C11: after a successful load while paused the stage is "word", the
\* labels show the loaded message and nothing is scheduled.
C11_PausedLoadResetsStage ==
    (lastOp = "load_ok" /\ paused)
        => /\ stage = "word"
           /\ display = <<LOADED_MESSAGE, "", "">>
           /\ timers = {}
           /\ pending_jobs = <<>>

\* C12: after a successful load the deck holds the entries of the file, each
\* as often as the file does, and index is 0; a running engine shows the
\* word of the first entry with one reveal callback scheduled and recorded.
C12_LoadReplacesDeck ==
    lastOp = "load_ok"
        => /\ words # <<>>
           /\ Occurrences(words) = last_loaded
           /\ current_index = 0
           /\ (~paused
                 => /\ stage = "word"
                    /\ display = WordOnly(words[1])
                    /\ \E t \in timers :
                          /\ timers = {t}
                          /\ t.cb = "reveal_current_word"
                          /\ pending_jobs = <<t.id>>)

\* a running engine got a new deck while the advance callback of the old
\* one was pending
C12_Witness ==
    /\ lastOp = "load_ok"
    /\ ~paused
    /\ prev.stage = "meaning"
    /\ prev.current_index > 0
    /\ Len(words) >= 2
    /\ Cardinality(timers) = 1

\* C13: with an empty deck no handle is recorded and no callback is live.
C13_EmptyDeckSchedulesNothing ==
    words = <<>> => (timers = {} /\ pending_jobs = <<>>)

\* the engine was resumed on an empty deck
C13_Witness ==
    /\ words = <<>>
    /\ lastOp = "resume"
    /\ ~paused
    /\ display = <<EMPTY_MESSAGE, "", "">>

\* the delay the code computes for a callback from the stored configuration
DelayFor(callback) ==
    IF callback = "reveal_current_word"
    THEN Max(0, config_data.showMeaningTimer) * MsPerSecond
    ELSE Max(0, config_data.nextWordTimer) * MsPerSecond

\* C14: every live callback carries the delay computed from the stored
\* configuration; a configuration change keeps index, and when running with
\* a deck it leaves one reveal callback and stage "word", when paused no
\* callback and the stage as it was.
C14_DelayFromStoredConfig ==
    /\ \A t \in timers : t.delay = DelayFor(t.cb)
    /\ lastOp = "config_ok"
         => /\ current_index = prev.current_index
            /\ (paused => (timers = {} /\ stage = prev.stage))
            /\ ((~paused /\ words # <<>>)
                  => /\ stage = "word"
                     /\ \E t \in timers :
                           /\ timers = {t}
                           /\ t.cb = "reveal_current_word"
                           /\ pending_jobs = <<t.id>>)

\* the configuration was changed while the advance callback was pending
C14_Witness ==
    /\ lastOp = "config_ok"
    /\ Running
    /\ prev.stage = "meaning"
    /\ stage = "word"
    /\ config_data.showMeaningTimer = MaxTimer
    /\ \E t \in timers : t.delay = MaxTimer * MsPerSecond

\* C15: the timers of the stored configuration are never negative.
C15_TimersNonNegative ==
    /\ config_data.showMeaningTimer >= 0
    /\ config_data.nextWordTimer >= 0

\* C16: a rejected settings dialog changes neither the stored configuration,
\* nor the pending timer, the stage or the index.
C16_InvalidConfigRejected ==
    [][lastOp' = "config_rejected"
         => UNCHANGED <<config_data, topmost, config_file, timers, pending_jobs,
                        stage, current_index, words, paused, display>>]_vars

\* the dialog was rejected while the advance callback was pending
C16_Witness ==
    /\ lastOp = "config_rejected"
    /\ Running
    /\ stage = "meaning"
    /\ \E t \in timers : t.cb = "advance_to_next_word"

\* the user actions that cancel or replace the pending callback
CancellingOps == {"pause", "resume", "config_ok", "load_ok", "close"}

\* from some point on the engine runs with a deck and no pending callback is
\* cancelled any more, so that every pending callback fires
EventuallyUndisturbed == <>[](Running /\ lastOp \notin CancellingOps)

\* C17: when the engine is eventually never paused and its pending callbacks
\* fire, stage "meaning" is reached again and again, the index wraps to 0
\* again and again, and every entry of the deck is displayed again and again;
\* a running engine always has a callback pending.
C17_CycleLoopsForever ==
    /\ [](Running => timers # {})
    /\ EventuallyUndisturbed
         => /\ []<>(stage = "meaning")
            /\ []<>(lastOp = "advance" /\ current_index = 0)
            /\ \A x \in SampleEntries :
                  []<>(x \in Range(words) => (Current = x /\ display = Revealed(x)))

\* the index has wrapped to 0 on a deck of two different entries
C17_Witness ==
    /\ lastOp = "advance"
    /\ Running
    /\ Len(words) = 2
    /\ words[1] # words[2]
    /\ current_index = 0
    /\ prev.current_index = 1
    /\ prev.stage = "meaning"

\* the handlers that start with cancel_pending_jobs
ClearingOps == {"advance", "pause", "resume", "config_ok", "load_ok", "close"}

\* C18 as stated: the record of pending handles never holds more than one
\* handle.
C18_RecordHoldsOneHandle == Len(pending_jobs) <= 1

\* C18 amended: every handler but the reveal callback clears the record before
\* it schedules, so after it the record holds just the handle it scheduled;
\* the reveal callback appends to the record that still holds its own fired
\* handle, so the record holds at most two handles, every live callback is
\* recorded and at most one recorded handle is live.
C18_RecordHoldsOneLiveHandle ==
    /\ Len(pending_jobs) <= 2
    /\ {t.id : t \in timers} \subseteq Range(pending_jobs)
    /\ Cardinality({i \in 1..Len(pending_jobs) :
                      \E t \in timers : t.id = pending_jobs[i]}) <= 1
    /\ lastOp \in ClearingOps => pending_jobs = [i \in 1..Cardinality(timers) |->
                                                   (CHOOSE t \in timers : TRUE).id]
    /\ Len(pending_jobs) = 2
         => /\ stage = "meaning"
            /\ \A t \in timers : /\ t.id = pending_jobs[2]
                                 /\ t.cb = "advance_to_next_word"

\* the reveal callback has run: the record holds its fired handle and the
\* handle of the advance callback
C18_Witness ==
    /\ lastOp = "reveal"
    /\ Running
    /\ Len(pending_jobs) = 2
    /\ \E t \in timers : t.id = pending_jobs[2]
    /\ \A t \in timers : t.id # pending_jobs[1]

\* C19: between handlers, an engine that is not paused, not closed and has a
\* deck has exactly one live callback: the reveal callback when stage is
\* "word", the advance callback when stage is "meaning".
C19_RunningHasItsCallback ==
    Running
        => \E t \in timers :
              /\ timers = {t}
              /\ stage = "word" => t.cb = "reveal_current_word"
              /\ stage = "meaning" => t.cb = "advance_to_next_word"

\* the advance callback is due in a running engine
C19_Witness ==
    /\ lastOp = "elapse"
    /\ Running
    /\ stage = "meaning"
    /\ \E t \in timers : t.cb = "advance_to_next_word" /\ t.due

\* C20: whatever user actions came before, the reveal callback runs on the
\* deck and index whose word is displayed and adds reading and meaning of
\* that same entry; the advance callback runs only with stage "meaning" and
\* the current entry revealed.
C20_NoStaleCallback ==
    [][/\ lastOp' = "reveal"
            => /\ words # <<>>
               /\ stage = "word"
               /\ display = WordOnly(Current)
               /\ display' = Revealed(Current)
               /\ UNCHANGED <<words, current_index>>
       /\ lastOp' = "advance"
            => /\ words # <<>>
               /\ stage = "meaning"
               /\ display = Revealed(Current)]_vars

\* the reveal callback ran on the first entry of a deck of several entries
C20_Witness ==
    /\ lastOp = "reveal"
    /\ Running
    /\ Len(words) >= 2
    /\ current_index = 0
    /\ prev.stage = "word"
    /\ display = Revealed(words[1])
    /\ words[1] # words[2]

====
